---- MODULE Spec2Model ----
(***************************************************************************)
(* Model of mood_player.py: the webcam vote aggregation, the text          *)
(* sentiment mapping, the manual mood entry, and the playback routing of   *)
(* the interactive loop in main().                                         *)
(*                                                                         *)
(* Python strings are sequences of one-character strings, so that          *)
(* str.strip() and str.lower() are computed and not assumed.               *)
(***************************************************************************)
EXTENDS Integers, Sequences, FiniteSets, TLC

(***************************************************************************)
(* Bounds of the model.                                                    *)
(***************************************************************************)
\* frames per detection session (main passes num_frames=12; the model
\* explores sessions of MaxFrames frames)
MaxFrames == 4

(***************************************************************************)
(* Strings.                                                                *)
(***************************************************************************)
\* Python's None; no Python string is equal to it (a string is a sequence of
\* one-character strings, and "None" is not one character)
None == << "None" >>

happy == << "h", "a", "p", "p", "y" >>
sad == << "s", "a", "d" >>
angry == << "a", "n", "g", "r", "y" >>
surprise == << "s", "u", "r", "p", "r", "i", "s", "e" >>
neutral == << "n", "e", "u", "t", "r", "a", "l" >>
fear == << "f", "e", "a", "r" >>
disgust == << "d", "i", "s", "g", "u", "s", "t" >>
\* a label that is no key of MOOD_FOLDERS
contempt == << "c", "o", "n", "t", "e", "m", "p", "t" >>

\* the keys of MOOD_FOLDERS
MOOD_FOLDERS == { happy, sad, angry, surprise, neutral, fear, disgust }

UpperCase ==
    << "A", "B", "C", "D", "E", "F", "G", "H", "I", "J", "K", "L", "M",
       "N", "O", "P", "Q", "R", "S", "T", "U", "V", "W", "X", "Y", "Z" >>

LowerCase ==
    << "a", "b", "c", "d", "e", "f", "g", "h", "i", "j", "k", "l", "m",
       "n", "o", "p", "q", "r", "s", "t", "u", "v", "w", "x", "y", "z" >>

Whitespace == { " ", "\t" }

\* str.lower() on one character
LowerChar(c) ==
    IF \E i \in 1..Len(UpperCase) : UpperCase[i] = c
    THEN LowerCase[CHOOSE i \in 1..Len(UpperCase) : UpperCase[i] = c]
    ELSE c

\* str.lower()
Lower(s) == [ i \in 1..Len(s) |-> LowerChar(s[i]) ]

RECURSIVE LStrip(_)
LStrip(s) ==
    IF s # << >> /\ Head(s) \in Whitespace THEN LStrip(Tail(s)) ELSE s

RECURSIVE RStrip(_)
RStrip(s) ==
    IF s # << >> /\ s[Len(s)] \in Whitespace
    THEN RStrip(SubSeq(s, 1, Len(s) - 1))
    ELSE s

\* str.strip()
Strip(s) == RStrip(LStrip(s))

(***************************************************************************)
(* WebcamMoodDetector.detect_mood: the vote aggregation.                   *)
(***************************************************************************)
Range(s) == { s[i] : i \in 1..Len(s) }

\* emotion_votes.count(label)
Count(votes, label) == Cardinality({ i \in 1..Len(votes) : votes[i] = label })

\* the orders in which iterating over set(emotion_votes) can yield its
\* elements: the iteration order of a set of str follows the strings' hashes,
\* which are randomised per process
SetOrders(S) ==
    { o \in [ 1..Cardinality(S) -> S ] :
        \A i, j \in 1..Cardinality(S) : i # j => o[i] # o[j] }

\* max() without its key: the first element in iteration order
PyMaxNoKey(order, votes) == order[1]

\* max(iterable, key=emotion_votes.count): the first element, in iteration
\* order, whose key is maximal
PyMax(order, votes) ==
    order[CHOOSE i \in 1..Len(order) :
            /\ \A j \in 1..Len(order) :
                  Count(votes, order[j]) <= Count(votes, order[i])
            /\ \A j \in 1..(i - 1) :
                  Count(votes, order[j]) < Count(votes, order[i])]

\* an aggregation that answers neutral when there is no vote
aggregateDefaultNeutral(votes, order) ==
    IF votes = << >> THEN neutral ELSE PyMax(order, votes)

\* lines 123-128 of detect_mood, with the set's iteration order as `order`
aggregate(votes, order) ==
    IF votes = << >> THEN None ELSE PyMax(order, votes)

\* Python's truth value of `not mood`
Falsy(m) == m = None \/ m = << >>

(***************************************************************************)
(* TextMoodDetector.detect_mood: polarity is in hundredths, -100..100.     *)
(***************************************************************************)
Threshold == 30

\* the polarities the sentiment scorer is taken to give
Polarities == { -100, -31, -30, -29, 0, 29, 30, 31, 100 }

\* the mapping with inclusive thresholds
TextMoodInclusive(p) ==
    IF p >= Threshold THEN happy
    ELSE IF p <= -Threshold THEN sad
    ELSE neutral

TextMood(p) ==
    IF p > Threshold THEN happy
    ELSE IF p < -Threshold THEN sad
    ELSE neutral

(***************************************************************************)
(* The music folders: MOOD_FOLDERS maps each mood to one path, so a path   *)
(* is named by its mood. A path is missing, a directory holding a set of   *)
(* files, or a regular file.                                               *)
(***************************************************************************)
File(stem, suffix) == [ stem |-> stem, suffix |-> suffix ]

README == File("README", << ".", "t", "x", "t" >>)
Song1 == File("song1", << ".", "m", "p", "3" >>)
Song2 == File("song2", << ".", "O", "G", "G" >>)
Notes == File("notes", << ".", "t", "x", "t" >>)
NoTrack == File("", << >>)
Playlist == File("playlist", << >>)

AudioSuffixes ==
    { << ".", "m", "p", "3" >>, << ".", "w", "a", "v" >>,
      << ".", "o", "g", "g" >>, << ".", "f", "l", "a", "c" >> }

Missing == [ kind |-> "missing", files |-> {} ]
Dir(files) == [ kind |-> "dir", files |-> files ]
RegularFile == [ kind |-> "file", files |-> {} ]

\* the states a mood's path is started in
FolderStates ==
    { Missing, Dir({ README }), Dir({ Song1, Song2, Notes }), RegularFile }

\* the file systems the program is started on
InitialFolders ==
    { [ m \in MOOD_FOLDERS |-> IF m \in { happy, neutral } THEN a ELSE b ] :
        a \in FolderStates, b \in FolderStates }

\* a bootstrap that writes the placeholder into every mood folder, emptying
\* the ones that exist
ensure_music_folders_Overwrite(fsys) ==
    [ m \in MOOD_FOLDERS |->
        IF fsys[m].kind = "file" THEN fsys[m] ELSE Dir({ README }) ]

\* lines 60-69: a path that does not exist becomes a directory holding the
\* placeholder README.txt; a path that exists is left as it is
ensure_music_folders(fsys) ==
    [ m \in MOOD_FOLDERS |->
        IF fsys[m].kind = "missing" THEN Dir({ README }) ELSE fsys[m] ]

\* a listing that does not filter on the suffix
list_music_files_AllFiles(folder) ==
    IF folder.kind = "missing" THEN [ raised |-> FALSE, files |-> {} ]
    ELSE IF folder.kind = "file" THEN [ raised |-> TRUE, files |-> {} ]
    ELSE [ raised |-> FALSE, files |-> folder.files ]

\* list_music_files: p.iterdir() raises NotADirectoryError on a regular file
list_music_files(folder) ==
    IF folder.kind = "missing" THEN [ raised |-> FALSE, files |-> {} ]
    ELSE IF folder.kind = "file" THEN [ raised |-> TRUE, files |-> {} ]
    ELSE [ raised |-> FALSE,
           files |-> { x \in folder.files : Lower(x.suffix) \in AudioSuffixes } ]

(***************************************************************************)
(* LocalMusicPlayer.                                                       *)
(***************************************************************************)
Outcome(result, track) == [ result |-> result, track |-> track ]

\* play_file: pygame loads and plays the file, or raises and the error is
\* caught and printed
play_file(filepath, playable) ==
    IF playable THEN Outcome("Succeeded", filepath)
    ELSE Outcome("UnplayableFile", filepath)

\* play_random_for_mood without its check for an empty list: random.choice
\* raises IndexError on an empty list
play_random_for_mood_NoEmptyCheck(m, fsys) ==
    IF m \notin MOOD_FOLDERS THEN { Outcome("NoFolderMapped", NoTrack) }
    ELSE LET listed == list_music_files(fsys[m]) IN
         IF listed.raised \/ listed.files = {}
         THEN { Outcome("Raised", NoTrack) }
         ELSE { play_file(f, playable) :
                  f \in listed.files, playable \in BOOLEAN }

\* the outcomes of play_random_for_mood(mood) on the file system fsys, over
\* random.choice and the audio engine
play_random_for_mood(m, fsys) ==
    IF m \notin MOOD_FOLDERS THEN { Outcome("NoFolderMapped", NoTrack) }
    ELSE LET listed == list_music_files(fsys[m]) IN
         IF listed.raised THEN { Outcome("Raised", NoTrack) }
         ELSE IF listed.files = {} THEN { Outcome("NoMusicFiles", NoTrack) }
         ELSE { play_file(f, playable) :
                  f \in listed.files, playable \in BOOLEAN }

(***************************************************************************)
(* The state of main() and of the detection session it runs.               *)
(***************************************************************************)
VARIABLES
    pc,                 \* where main() is
    fs,                 \* the file system: mood -> state of the mood's path
    spotify_controller, \* TRUE when main holds a SpotifyController
    choice,             \* main's choice, the stripped menu input
    mood,               \* main's mood
    entry,              \* the line typed at "Type mood: ", None when none was
    polarity,           \* {the polarity TextBlob gave}, {} when none was given
    cap_open,           \* the capture device is held by detect_mood
    cannot_open,        \* detect_mood printed "Cannot open webcam" this iteration
    display,            \* the detector's display parameter (main passes False)
    emotion_votes,      \* detect_mood's emotion_votes
    frames_taken,       \* detect_mood's frames_taken
    \* (entry, polarity, emotion_votes and frames_taken are locals of the
    \* acquisition step: they are kept until the route is chosen)
    resolution,         \* how this iteration's mood acquisition ended
    attempts            \* the backend attempts of this iteration, in order

vars ==
    << pc, fs, spotify_controller, choice, mood, entry, polarity, cap_open,
       cannot_open, display, emotion_votes, frames_taken, resolution,
       attempts >>

\* main calls detect_mood(num_frames=12); the model runs sessions of
\* MaxFrames frames
num_frames == MaxFrames

\* what the emotion source can answer for one frame: cap.read() fails, the
\* classifier raises, no face is found, or the top emotion of the first face;
\* in display mode the user may press q on a frame that showed a face
EmotionLabels == { happy, sad, contempt }

FrameOutcomes ==
    { [ kind |-> k, label |-> None ] :
        k \in { "read_failed", "classifier_error", "no_face" } }
    \cup { [ kind |-> k, label |-> l ] :
             k \in { "vote", "vote_quit" }, l \in EmotionLabels }

\* the lines typed at "Enter choice (1-4): "
RawChoices ==
    { << "1" >>, << "2" >>, << "3" >>, << "4" >>, << "5" >>, << >>,
      << " ", "1" >>, << "3", " " >>, << "\t", "4", " " >> }

\* the lines typed at "Choose (1 or 2): "
RawPlayChoices ==
    { << >>, << "1" >>, << "2" >>, << " ", "2", " " >>, << "x" >>, << " " >> }

\* the lines typed at "Type mood: "
ManualEntries ==
    { << "H", "A", "P", "P", "Y", " " >>,
      << "e", "x", "c", "i", "t", "e", "d" >>,
      happy, << " ", "s", "a", "d" >>, << "S", "a", "d", "\t" >>,
      << "\t", " ", "F", "e", "A", "r", " ", " " >>,
      << "f", "e", " ", "a", "r" >>, << >>, << " ", " " >> }

Attempt(backend, result, track) ==
    [ backend |-> backend, result |-> result, track |-> track ]

Init ==
    /\ pc = "start"
    /\ fs \in InitialFolders
    /\ spotify_controller = FALSE
    /\ choice = << >>
    /\ mood = None
    /\ entry = None
    /\ polarity = {}
    /\ cap_open = FALSE
    /\ cannot_open = FALSE
    /\ display \in BOOLEAN
    /\ emotion_votes = << >>
    /\ frames_taken = 0
    /\ resolution = "none"
    /\ attempts = << >>

\* main, lines 221-238: the folders are ensured and the Spotify controller
\* is built when the credentials are set and its construction does not raise
Startup ==
    /\ pc = "start"
    /\ fs' = ensure_music_folders(fs)
    /\ spotify_controller' \in BOOLEAN
    /\ pc' = "menu"
    /\ UNCHANGED << choice, mood, entry, polarity, cap_open, cannot_open,
                    display, emotion_votes, frames_taken, resolution,
                    attempts >>

\* what every pass through the menu prompt leaves behind it
NewIteration(c) ==
    /\ pc = "menu"
    /\ \E raw \in RawChoices : Strip(raw) = c
    /\ choice' = c
    /\ attempts' = << >>
    /\ UNCHANGED << fs, spotify_controller, display >>

\* a main that plays neutral when no mood was detected
AfterDetectDefaultNeutral(m) ==
    IF Falsy(m)
    THEN [ mood |-> neutral, resolution |-> "resolved", pc |-> "route" ]
    ELSE [ mood |-> m, resolution |-> "resolved", pc |-> "route" ]

\* main's lines 250-254 on the value detect_mood returned
AfterDetect(m) ==
    IF Falsy(m)
    THEN [ mood |-> m, resolution |-> "MoodUndetermined", pc |-> "menu" ]
    ELSE [ mood |-> m, resolution |-> "resolved", pc |-> "route" ]

\* choice "1": detect_mood opens the capture device, or returns None when it
\* cannot, and main continues
MenuWebcam ==
    /\ NewIteration(<< "1" >>)
    /\ entry' = None
    /\ polarity' = {}
    /\ emotion_votes' = << >>
    /\ frames_taken' = 0
    /\ \E opened \in BOOLEAN :
         IF opened
         THEN /\ cap_open' = TRUE
              /\ cannot_open' = FALSE
              /\ pc' = "detect"
              /\ resolution' = "none"
              /\ UNCHANGED mood
         ELSE /\ cap_open' = FALSE
              /\ cannot_open' = TRUE
              /\ mood' = AfterDetect(None).mood
              /\ resolution' = AfterDetect(None).resolution
              /\ pc' = AfterDetect(None).pc

\* the finally clause without cap.release(): the device stays as it was
release_Leak(held) == held

\* cap.release() in the finally clause, lines 118-119: the device is no
\* longer held
release(held) == FALSE

\* one pass of the sampling loop, lines 98-117, and the finally clause when
\* the pass leaves the loop
DetectFrame ==
    /\ pc = "detect"
    /\ frames_taken < num_frames
    /\ \E r \in FrameOutcomes :
         CASE r.kind = "read_failed" ->
                /\ cap_open' = release(cap_open)
                /\ pc' = "aggregate"
                /\ UNCHANGED << emotion_votes, frames_taken >>
           [] r.kind = "classifier_error" ->
                /\ cap_open' = release(cap_open)
                /\ pc' = "crashed"
                /\ UNCHANGED << emotion_votes, frames_taken >>
           [] r.kind = "vote_quit" ->
                /\ display
                /\ emotion_votes' = Append(emotion_votes, r.label)
                /\ cap_open' = release(cap_open)
                /\ pc' = "aggregate"
                /\ UNCHANGED frames_taken
           [] r.kind = "no_face" ->
                /\ frames_taken' = frames_taken + 1
                /\ UNCHANGED << cap_open, pc, emotion_votes >>
           [] r.kind = "vote" ->
                /\ emotion_votes' = Append(emotion_votes, r.label)
                /\ frames_taken' = frames_taken + 1
                /\ UNCHANGED << cap_open, pc >>
    /\ UNCHANGED << fs, spotify_controller, choice, mood, entry, polarity,
                    cannot_open, display, resolution, attempts >>

\* the loop condition fails: the finally clause releases the device
DetectLoopExit ==
    /\ pc = "detect"
    /\ ~ (frames_taken < num_frames)
    /\ cap_open' = release(cap_open)
    /\ pc' = "aggregate"
    /\ UNCHANGED << fs, spotify_controller, choice, mood, entry, polarity,
                    cannot_open, display, emotion_votes, frames_taken,
                    resolution, attempts >>

\* lines 123-128: detect_mood returns, and main goes on
DetectReturn ==
    /\ pc = "aggregate"
    /\ \E order \in SetOrders(Range(emotion_votes)) :
         LET after == AfterDetect(aggregate(emotion_votes, order)) IN
           /\ mood' = after.mood
           /\ resolution' = after.resolution
           /\ pc' = after.pc
    /\ UNCHANGED << fs, spotify_controller, choice, entry, polarity, cap_open,
                    cannot_open, display, emotion_votes, frames_taken,
                    attempts >>

\* choice "2": the text's polarity is mapped to a mood
MenuText ==
    /\ NewIteration(<< "2" >>)
    /\ \E p \in Polarities :
         /\ polarity' = { p }
         /\ mood' = TextMood(p)
    /\ entry' = None
    /\ resolution' = "resolved"
    /\ pc' = "route"
    /\ emotion_votes' = << >>
    /\ frames_taken' = 0
    /\ cannot_open' = FALSE
    /\ UNCHANGED cap_open

\* the typed mood stripped and not lower-cased
resolve_manual_NoLower(typed) == Strip(typed)

\* input("Type mood: ").strip().lower()
resolve_manual(typed) == Lower(Strip(typed))

\* choice "3": the typed mood is accepted when it is a key of MOOD_FOLDERS
MenuManual ==
    /\ NewIteration(<< "3" >>)
    /\ \E typed \in ManualEntries :
         /\ entry' = typed
         /\ mood' = resolve_manual(typed)
    /\ IF mood' \notin MOOD_FOLDERS
       THEN resolution' = "UnknownMood" /\ pc' = "menu"
       ELSE resolution' = "resolved" /\ pc' = "route"
    /\ polarity' = {}
    /\ emotion_votes' = << >>
    /\ frames_taken' = 0
    /\ cannot_open' = FALSE
    /\ UNCHANGED cap_open

\* choice "4"
MenuExit ==
    /\ NewIteration(<< "4" >>)
    /\ pc' = "exited"
    /\ resolution' = "none"
    /\ entry' = None
    /\ polarity' = {}
    /\ emotion_votes' = << >>
    /\ frames_taken' = 0
    /\ cannot_open' = FALSE
    /\ UNCHANGED << mood, cap_open >>

\* an invalid choice without its continue: main goes on to the route
MenuInvalidFallsThrough ==
    /\ \E c \in { Strip(raw) : raw \in RawChoices } :
         /\ c \notin { << "1" >>, << "2" >>, << "3" >>, << "4" >> }
         /\ NewIteration(c)
    /\ pc' = "route"
    /\ resolution' = "InvalidChoice"
    /\ entry' = None
    /\ polarity' = {}
    /\ emotion_votes' = << >>
    /\ frames_taken' = 0
    /\ cannot_open' = FALSE
    /\ UNCHANGED << mood, cap_open >>

\* any other choice
MenuInvalid ==
    /\ \E c \in { Strip(raw) : raw \in RawChoices } :
         /\ c \notin { << "1" >>, << "2" >>, << "3" >>, << "4" >> }
         /\ NewIteration(c)
    /\ pc' = "menu"
    /\ resolution' = "InvalidChoice"
    /\ entry' = None
    /\ polarity' = {}
    /\ emotion_votes' = << >>
    /\ frames_taken' = 0
    /\ cannot_open' = FALSE
    /\ UNCHANGED << mood, cap_open >>

(***************************************************************************)
(* Playback routing, main's lines 276-299.                                 *)
(***************************************************************************)
LeftAlone ==
    UNCHANGED << fs, spotify_controller, choice, mood, entry, polarity,
                 cap_open, cannot_open, display, emotion_votes, frames_taken,
                 resolution >>

\* input("Choose (1 or 2): ").strip() or "1"
play_choice(raw) == IF Strip(raw) = << >> THEN << "1" >> ELSE Strip(raw)

\* lines 281-283 and 298: the route is chosen
ChoosePlayback ==
    /\ pc = "route"
    /\ \E raw \in RawPlayChoices :
         IF play_choice(raw) = << "2" >> /\ spotify_controller
         THEN pc' = "find_playlist"
         ELSE pc' = "local_default"
    /\ entry' = None
    /\ polarity' = {}
    /\ emotion_votes' = << >>
    /\ frames_taken' = 0
    /\ UNCHANGED << fs, spotify_controller, choice, mood, cap_open,
                    cannot_open, display, resolution, attempts >>

\* a search whose empty result ends the request
AfterFindPlaylistNoFallback(result) ==
    CASE result = "Found" -> "start_playback"
      [] result = "NoPlaylistFound" -> "menu"
      [] result = "SearchError" -> "local_fallback"

\* where main goes once find_playlist_for_mood has ended with `result`:
\* on to start_playback_by_uri, to line 288 when no playlist was found, to
\* the except clause when the search raised
AfterFindPlaylist(result) ==
    CASE result = "Found" -> "start_playback"
      [] result = "NoPlaylistFound" -> "local_in_try"
      [] result = "SearchError" -> "local_fallback"

\* line 285: the search finds a playlist, finds none, or raises
FindPlaylist ==
    /\ pc = "find_playlist"
    /\ \E r \in { "Found", "NoPlaylistFound", "SearchError" } :
         /\ attempts' =
              IF r = "Found" THEN attempts
              ELSE Append(attempts, Attempt("spotify", r, NoTrack))
         /\ pc' = AfterFindPlaylist(r)
    /\ LeftAlone

\* a routing step that goes to the except clause after a started playback
AfterStartPlaybackAlwaysFallback(result) == "local_fallback"

\* a routing step whose try does not cover start_playback_by_uri
AfterStartPlaybackUncaught(result) ==
    IF result = "Succeeded" THEN "menu" ELSE "crashed"

\* where main goes once start_playback_by_uri has ended with `result`:
\* back to the menu when it returned, to the except clause when it raised
AfterStartPlayback(result) ==
    IF result = "Succeeded" THEN "menu" ELSE "local_fallback"

\* lines 290-293 and start_playback_by_uri: no device, an error of
\* sp.devices() or of sp.start_playback(), or playback started
StartPlayback ==
    /\ pc = "start_playback"
    /\ \E r \in { "Succeeded", "NoDevices", "DevicesError", "StartError" } :
         /\ attempts' =
              Append(attempts,
                     Attempt("spotify", r,
                             IF r = "Succeeded" THEN Playlist ELSE NoTrack))
         /\ pc' = AfterStartPlayback(r)
    /\ LeftAlone

\* one call of local_player.play_random_for_mood(mood); onRaise is where
\* main is when the call raises
LocalAttempt(onRaise) ==
    /\ \E o \in play_random_for_mood(mood, fs) :
         /\ attempts' = Append(attempts, Attempt("local", o.result, o.track))
         /\ pc' = IF o.result = "Raised" THEN onRaise ELSE "menu"
    /\ LeftAlone

\* line 288, inside the try
LocalInTry ==
    /\ pc = "local_in_try"
    /\ LocalAttempt("local_fallback")

\* line 297, in the except clause
LocalFallback ==
    /\ pc = "local_fallback"
    /\ LocalAttempt("crashed")

\* line 299
LocalDefault ==
    /\ pc = "local_default"
    /\ LocalAttempt("crashed")

Next ==
    \/ Startup
    \/ MenuWebcam
    \/ DetectFrame
    \/ DetectLoopExit
    \/ DetectReturn
    \/ MenuText
    \/ MenuManual
    \/ MenuExit
    \/ MenuInvalid
    \/ ChoosePlayback
    \/ FindPlaylist
    \/ StartPlayback
    \/ LocalInTry
    \/ LocalFallback
    \/ LocalDefault

Spec == Init /\ [][Next]_vars

(***************************************************************************)
(* The claims.                                                             *)
(***************************************************************************)
\* detect_mood has returned a mood to main and the route is not yet chosen:
\* emotion_votes is the session's vote sequence and mood the value returned
WebcamReturned == pc = "route" /\ choice = << "1" >>

\* the labels whose count is maximal in votes
MaxLabels(votes) ==
    { l \in Range(votes) :
        \A k \in Range(votes) : Count(votes, k) <= Count(votes, l) }

\* the label of maximal count whose first occurrence is the earliest
FirstEncounteredMax(votes) ==
    votes[CHOOSE i \in 1..Len(votes) :
            /\ votes[i] \in MaxLabels(votes)
            /\ \A j \in 1..(i - 1) : votes[j] \notin MaxLabels(votes)]

\* C1: when several labels share the maximal count, detect_mood returns the
\* one of them that occurs first in the vote sequence, the same on every run.
C1_TieBreakFirstEncountered ==
    WebcamReturned => mood = FirstEncounteredMax(emotion_votes)

\* C2: for a non-empty vote sequence detect_mood returns a label that occurs
\* in the sequence and whose count is maximal among the labels of the
\* sequence.
C2_MajorityVote ==
    (WebcamReturned /\ emotion_votes # << >>) =>
        /\ mood \in Range(emotion_votes)
        /\ \A l \in Range(emotion_votes) :
              Count(emotion_votes, l) <= Count(emotion_votes, mood)

\* a session of three votes or more over two labels has returned the label
\* of the majority, which is not the first vote
C2_Witness ==
    /\ WebcamReturned
    /\ Len(emotion_votes) >= 3
    /\ Cardinality(Range(emotion_votes)) >= 2
    /\ mood # emotion_votes[1]
    /\ Cardinality(MaxLabels(emotion_votes)) = 1

\* C3: a detection session that ends with no vote returns None, never a
\* mood.
C3_EmptyVotesReturnNone ==
    [][(pc = "aggregate" /\ emotion_votes = << >>) => mood' = None]_vars

\* every frame of a session was read and none showed a face: None was
\* returned
C3_Witness ==
    /\ pc = "menu"
    /\ choice = << "1" >>
    /\ frames_taken = num_frames
    /\ emotion_votes = << >>
    /\ mood = None

\* C4: the text mood is a total function of the polarity with exclusive
\* thresholds: above 0.3 happy, below -0.3 sad, neutral from -0.3 to 0.3,
\* both ends included (polarity in hundredths).
C4_SentimentThresholds ==
    \A p \in polarity :
        /\ p > 30 => mood = happy
        /\ p < -30 => mood = sad
        /\ (-30 <= p /\ p <= 30) => mood = neutral

\* the polarity was exactly 0.3 and the mood is neutral
C4_Witness == pc = "route" /\ polarity = { 30 } /\ mood = neutral

\* C5: within one request no backend is attempted after one has started
\* playback; after a Spotify start_playback that succeeded, local playback is
\* never started for the request.
C5_SingleSuccess ==
    /\ \A i \in 1..Len(attempts) :
          attempts[i].result = "Succeeded" => i = Len(attempts)
    /\ (\E i \in 1..Len(attempts) :
          attempts[i].backend = "spotify" /\ attempts[i].result = "Succeeded")
       => (pc = "menu" /\ \A j \in 1..Len(attempts) : attempts[j].backend # "local")

\* Spotify has started playback and main is back at the menu
C5_Witness ==
    /\ pc = "menu"
    /\ attempts = << Attempt("spotify", "Succeeded", Playlist) >>

\* the audio files of the mood's folder, read off the file system
AudioFilesOf(m) ==
    IF m \in MOOD_FOLDERS /\ fs[m].kind = "dir"
    THEN { f \in fs[m].files :
             \E a \in AudioSuffixes :
                /\ Len(a) = Len(f.suffix)
                /\ \A k \in 1..Len(a) :
                      \/ f.suffix[k] = a[k]
                      \/ \E n \in 1..Len(UpperCase) :
                            UpperCase[n] = f.suffix[k] /\ LowerCase[n] = a[k] }
    ELSE {}

\* the request went the Spotify way and its search found no playlist
SearchFoundNothing ==
    /\ attempts # << >>
    /\ attempts[1] = Attempt("spotify", "NoPlaylistFound", NoTrack)

SearchFailed ==
    /\ attempts # << >>
    /\ attempts[1].backend = "spotify"
    /\ attempts[1].result \in { "NoPlaylistFound", "SearchError" }

\* the mood has a folder and the folder holds no audio file
CatalogEmpty(m) ==
    /\ m \in MOOD_FOLDERS
    /\ fs[m].kind \in { "dir", "missing" }
    /\ AudioFilesOf(m) = {}

\* C7: when the Spotify search fails and the mood's folder holds no audio
\* file, the request ends with no playback and two failure reasons, Spotify's
\* then the local backend's, and main does not crash.
C7_TotalFailure ==
    (SearchFailed /\ CatalogEmpty(mood)) =>
        /\ pc \in { "local_in_try", "local_fallback", "menu" }
        /\ pc = "menu" =>
              /\ Len(attempts) = 2
              /\ attempts[2] = Attempt("local", "NoMusicFiles", NoTrack)
              /\ \A i \in 1..Len(attempts) : attempts[i].result # "Succeeded"

\* the search raised, the folder had no audio file, and main is back at the
\* menu with both reasons
C7_Witness ==
    /\ pc = "menu"
    /\ CatalogEmpty(mood)
    /\ attempts = << Attempt("spotify", "SearchError", NoTrack),
                     Attempt("local", "NoMusicFiles", NoTrack) >>

\* the places of main from line 276 to line 299, where mood goes to playback
Routing ==
    pc \in { "route", "find_playlist", "start_playback", "local_in_try",
             "local_fallback", "local_default" }

\* C8: the mood handed to playback routing is always a key of MOOD_FOLDERS,
\* whatever the acquisition path and whatever labels the emotion source gives.
C8_ClosedMoodSet == Routing => mood \in MOOD_FOLDERS

\* c and d are the same letter, whatever their case, or the same character
SameLetter(c, d) ==
    \/ c = d
    \/ \E n \in 1..Len(UpperCase) :
          { c, d } \subseteq { UpperCase[n], LowerCase[n] }

\* typed is the mood m in some case, between two runs of whitespace
Spells(typed, m) ==
    \E i, j \in 0..Len(typed) :
        /\ i + Len(m) + j = Len(typed)
        /\ \A k \in 1..i : typed[k] \in Whitespace
        /\ \A k \in 1..j : typed[i + Len(m) + k] \in Whitespace
        /\ \A k \in 1..Len(m) : SameLetter(typed[i + k], m[k])

\* C9: a typed mood is accepted exactly when, trimmed and lower-cased, it is
\* one of the moods, and it then resolves to that mood ("HAPPY " to happy);
\* any other entry ("excited") fails as UnknownMood, no backend is attempted
\* and main is back at the menu.
C9_ManualResolution ==
    entry # None =>
        /\ \A m \in MOOD_FOLDERS :
              Spells(entry, m) =>
                  (mood = m /\ pc = "route" /\ resolution = "resolved")
        /\ (\A m \in MOOD_FOLDERS : ~ Spells(entry, m)) =>
              (pc = "menu" /\ resolution = "UnknownMood" /\ attempts = << >>)
        /\ entry = << "H", "A", "P", "P", "Y", " " >> =>
              (mood = happy /\ pc = "route")
        /\ entry = << "e", "x", "c", "i", "t", "e", "d" >> =>
              (pc = "menu" /\ resolution = "UnknownMood")

\* "HAPPY " was typed and happy goes to routing
C9_Witness ==
    /\ entry = << "H", "A", "P", "P", "Y", " " >>
    /\ mood = happy
    /\ pc = "route"

\* detect_mood is about to return None: the session ended with no vote, or
\* the capture device did not open
ReturnsNone ==
    \/ pc = "aggregate" /\ emotion_votes = << >>
    \/ pc = "menu" /\ choice' = << "1" >> /\ pc' # "detect"

\* C10: when detect_mood returns None the attempt fails as MoodUndetermined:
\* the mood is not replaced by neutral or any other mood, no backend is
\* attempted, and main is back at the menu.
C10_UndeterminedNotDefaulted ==
    [][ReturnsNone =>
          /\ resolution' = "MoodUndetermined"
          /\ mood' = None
          /\ attempts' = << >>
          /\ pc' = "menu"]_vars

\* a session read a frame with no face, then a read failed: main is at the
\* menu with no mood and no attempt
C10_Witness ==
    /\ pc = "menu"
    /\ resolution = "MoodUndetermined"
    /\ frames_taken = 1
    /\ mood = None
    /\ attempts = << >>

\* detect_mood has just returned to main without a mood
ReturnedNoMood ==
    pc = "menu" /\ choice = << "1" >> /\ resolution = "MoodUndetermined"

\* what main has in hand once detect_mood has returned
CallerSees == [ mood |-> mood, resolution |-> resolution, pc |-> pc ]

\* what main has in hand after a session that opened the device and
\* collected no vote
AfterZeroVotes == AfterDetect(aggregate(<< >>, << >>))

\* C11: a capture device that cannot be opened is reported before any vote is
\* collected, and what the caller of detect_mood gets then differs from what
\* it gets after a session that opened the device and collected no vote.
C11_UnavailableDistinguishable ==
    (ReturnedNoMood /\ cannot_open) =>
        /\ emotion_votes = << >>
        /\ frames_taken = 0
        /\ CallerSees # AfterZeroVotes

\* C12: no failure of the mood acquisition or of the playback routing ends
\* the process: main leaves its loop only on the exit choice.
C12_NeverCrashes == pc # "crashed"

\* C13: ensure_music_folders run twice gives the same folders and files as
\* run once, and a path that exists is left untouched.
C13_BootstrapIdempotent ==
    [][pc = "start" =>
          /\ ensure_music_folders(fs') = fs'
          /\ \A m \in MOOD_FOLDERS :
                /\ fs'[m].kind # "missing"
                /\ fs[m].kind # "missing" => fs'[m] = fs[m]
                /\ fs[m].kind = "missing" => fs'[m] = Dir({ README })]_vars

\* the bootstrap has run: one folder holds only the placeholder and another
\* has kept its songs and notes
C13_Witness ==
    /\ pc = "menu"
    /\ fs[happy] = Dir({ README })
    /\ fs[sad] = Dir({ Song1, Song2, Notes })

\* the last attempt recorded
LastAttempt(a) == a[Len(a)]

StartFailures == { "NoDevices", "DevicesError", "StartError" }

\* C14: every failure of the Spotify start-playback step (no device, an error
\* of the device listing or of start_playback) is caught in the routing step,
\* and the local backend is then attempted for the same mood in the same
\* request.
C14_StartFailureIsSoft ==
    [][/\ (pc = "start_playback" /\ LastAttempt(attempts').result \in StartFailures)
          => (pc' = "local_fallback" /\ mood' = mood)
       /\ (pc = "local_fallback")
          => /\ mood' = mood
             /\ Len(attempts') = Len(attempts) + 1
             /\ LastAttempt(attempts').backend = "local"
             /\ LastAttempt(attempts').result \in { "Succeeded", "UnplayableFile" }
                   => LastAttempt(attempts').track \in
                        { o.track : o \in play_random_for_mood(mood, fs) }]_vars

\* no Spotify device was found and the local backend then played a song
C14_Witness ==
    /\ pc = "menu"
    /\ Len(attempts) = 2
    /\ attempts[1] = Attempt("spotify", "NoDevices", NoTrack)
    /\ attempts[2].backend = "local"
    /\ attempts[2].result = "Succeeded"

\* the Spotify attempts of a request come before its local attempts
PriorityOrder(a) ==
    \A i, j \in 1..Len(a) :
        (a[i].backend = "local" /\ a[j].backend = "spotify") => j < i

\* C15: every playback request goes from backend to backend in priority
\* order, Spotify before local, and ends in one outcome, a playback started or
\* every backend failed, with main back at the menu prompt.
C15_RequestEndsAtMenu ==
    [][Routing =>
          /\ Routing' \/ pc' = "menu"
          /\ PriorityOrder(attempts')
          /\ pc' = "menu" =>
                /\ attempts' # << >>
                /\ \A i \in 1..(Len(attempts') - 1) :
                      attempts'[i].result # "Succeeded"]_vars

\* C16: a detection session reads at most num_frames frames, never holds
\* more than num_frames votes, and always returns to main, with a mood or
\* with None, whatever the emotion source does.
C16_SessionBoundedAndReturns ==
    [][/\ pc = "detect" =>
             /\ pc' \in { "detect", "aggregate" }
             /\ frames_taken' <= num_frames
             /\ Len(emotion_votes') <= num_frames
       /\ pc = "aggregate" =>
             /\ pc' \in { "menu", "route" }
             /\ mood' = None \/ mood' \in Range(emotion_votes)]_vars

\* C17: the track the local backend plays is a file of the mood's folder
\* whose suffix is .mp3, .wav, .ogg or .flac in any case; README.txt and the
\* like are never chosen, and a folder without such a file gives a failure
\* with no playback.
C17_LocalTrackIsAudioOfMood ==
    \A i \in 1..Len(attempts) :
        attempts[i].backend = "local" =>
            /\ attempts[i].result \in { "Succeeded", "UnplayableFile" } =>
                  /\ attempts[i].track \in AudioFilesOf(mood)
                  /\ attempts[i].track \notin { README, Notes }
            /\ (mood \in MOOD_FOLDERS /\ fs[mood].kind = "dir"
                /\ AudioFilesOf(mood) = {}) =>
                  attempts[i] = Attempt("local", "NoMusicFiles", NoTrack)

\* the local backend, chosen at the prompt, has played the file whose suffix
\* is in upper case
C17_Witness ==
    /\ pc = "menu"
    /\ attempts = << Attempt("local", "Succeeded", Song2) >>

\* C18: within one request play_random_for_mood is called at most once.
C18_LocalAttemptedOnce ==
    Cardinality({ i \in 1..Len(attempts) : attempts[i].backend = "local" }) <= 1

\* the mood at the route prompt was acquired in this iteration, from this
\* iteration's votes, polarity or typed entry
FreshMood ==
    /\ resolution = "resolved"
    /\ CASE choice = << "1" >> ->
              emotion_votes # << >> /\ mood \in Range(emotion_votes)
         [] choice = << "2" >> ->
              /\ polarity # {}
              /\ \A p \in polarity :
                    mood = IF p > 30 THEN happy
                           ELSE IF p < -30 THEN sad ELSE neutral
         [] choice = << "3" >> -> entry # None /\ Spells(entry, mood)
         [] OTHER -> FALSE

\* C19: playback always uses the mood acquired in the same iteration: routing
\* starts only at the route prompt, with a mood acquired in this iteration,
\* and the mood does not change while the request is routed; a failed or
\* rejected acquisition and an invalid choice go back to the menu.
C19_NoStaleMood ==
    [][/\ pc' = "route" => FreshMood'
       /\ (Routing' /\ pc' # "route") => Routing
       /\ Routing => mood' = mood
       /\ resolution' \in { "MoodUndetermined", "UnknownMood", "InvalidChoice" }
             => (pc' = "menu" /\ attempts' = << >>)]_vars

\* an invalid choice after an earlier request: the earlier mood is still in
\* main's variable and nothing was played with it
C19_Witness ==
    /\ pc = "menu"
    /\ resolution = "InvalidChoice"
    /\ mood = happy
    /\ attempts = << >>

\* C20: the capture device is held only inside the sampling loop: it is
\* released on every way out of it, so no session opens the device while
\* another holds it.
C20_DeviceReleased == cap_open => pc = "detect"

\* the user pressed q on a frame in display mode: the vote was kept, the
\* frame was not counted, and the device is released
C20_Witness ==
    /\ pc = "aggregate"
    /\ display
    /\ Len(emotion_votes) > frames_taken
    /\ ~ cap_open

====
